---- MODULE Spec2Model ----
(***************************************************************************)
(* Model of the altcoin-trading data collector:                            *)
(*   - DataStore (src/classes/interface_classes.py): the per-symbol csv    *)
(*     log with its dictionary of seen ids;                                *)
(*   - the thread launchers of src/main.py (all_threads, the huobi         *)
(*     staggered launchers and the per-exchange launchers);                *)
(*   - HistoricalKlines (src/main.py): the one-shot kline history fetch;   *)
(*   - the interval and error-code lookups, the symbol selection and one   *)
(*     collection thread with its callbacks (src/main.py).                 *)
(* Each part has its own specification over the same variables:            *)
(*   SpecStore, SpecOrch, SpecHist, SpecLookup, SpecSelect, SpecThread.    *)
(***************************************************************************)
EXTENDS Integers, Sequences, FiniteSets, TLC

VARIABLES
  \* ---- DataStore and the file system
  files,          \* path -> rows of the csv file at that path
  present,        \* the paths at which a file exists
  constructed,    \* a DataStore object exists
  csv_name,       \* DataStore.csv_name
  timestamps,     \* DataStore.timestamps: the keys of the dict, in insertion order
  id_buffer_size, \* DataStore.id_buffer_size
  id_index,       \* the id_index argument the caller passes to write_data_to_csv
  op,             \* the last operation on the store
  arg,            \* the data argument of the last write_data_to_csv call
  io_ok,          \* whether the file append of the last call succeeded
  ret,            \* what the last call returned ("None") or that it raised
  ncalls,         \* number of write_data_to_csv calls made
  \* ---- thread launchers
  entry,          \* the launcher function that is running
  nsymbols,       \* length of the symbol list it is given
  opc,            \* position of the launcher function
  bi,             \* its loop variable i (start of the current slice)
  lpc,            \* position of the per-exchange launcher (huobi_get_klines, ...)
  lo, hi,         \* the slice of symbols the per-exchange launcher was given: lo+1..hi
  k,              \* position inside the current start loop or join loop
  task,           \* task number -> state of the collection thread
  starts,         \* task number -> number of times start() was called on it
  sleeps,         \* number of completed time.sleep(SLEEP_BETWEEN_THREAD_GEN)
  data_store,     \* task number -> the DataStore object of the task and its path
  kline_interval_seconds, \* the value KLINE_INTERVAL_SECONDS is configured to
  \* ---- HistoricalKlines
  exchange,       \* HistoricalKlines.exchange
  hsym,           \* index of the symbol get_historical_all is at
  hpc,            \* position of get_historical_all / save_klines
  resp,           \* the last value get_kline_history returned
  fetches,        \* number of get_kline_history calls for the current symbol
  backoffs,       \* number of time.sleep(DELAY_AFTER_TIMEOUT) for the current symbol
  logged,         \* the error of the current symbol was printed by _error_handler
  helapsed,       \* seconds since save_klines was called for the current symbol
  \* ---- the lookups of KlineIntervals, ErrorCodes and _error_handler
  lkex,           \* the exchange the lookup object is built for
  lktoken,        \* the interval token a caller asks about
  lkseconds,      \* the number of seconds a caller asks about
  lkerror,        \* the error a caller hands to _error_handler
  lkop,           \* the lookup made last
  lkout,          \* what it returned or raised
  \* ---- the symbol selection (*_set_coins_to_track)
  slex,           \* the exchange whose listing is filtered
  listing,        \* the raw listing get_symbols returned
  excluded,       \* the exclusion list in force
  slpc,           \* "call" before *_set_coins_to_track, "done" after it
  tracked,        \* the list it returned
  \* ---- one collection thread (a subclass of ThreadingBase) and its callbacks
  cls,            \* the class of the thread
  now,            \* time.time()
  start_time,     \* ThreadingBase.start_time
  duration,       \* ThreadingBase.duration
  sleep,          \* the argument of time.sleep in the collection loop
  tpc,            \* position of the thread in run() / collection_loop()
  wake,           \* the time at which the current sleep ends
  stop_event,     \* ThreadingBase._stop_event is set
  stop_called,    \* another thread has called stop()
  pending,        \* requests issued whose response has not been delivered yet
  subscribed,     \* the subscription of a streaming thread is open
  cb,             \* callback thread -> position and data of the callback it
                  \* runs, and (until the row is written) the time at which
                  \* the record was handed to it
  nreq,           \* number of adapter calls the thread has made
  ndeliv          \* number of callbacks started

storeVars == <<files, present, constructed, csv_name, timestamps, id_buffer_size,
               id_index, op, arg, io_ok, ret, ncalls>>
orchVars == <<entry, nsymbols, opc, bi, lpc, lo, hi, k, task, starts, sleeps,
              data_store, kline_interval_seconds>>
histVars == <<exchange, hsym, hpc, resp, fetches, backoffs, logged, helapsed>>
lookupVars == <<lkex, lktoken, lkseconds, lkerror, lkop, lkout>>
\* the variables of the units that are checked on their own
selVars == <<slex, listing, excluded, slpc, tracked>>
threadVars == <<cls, now, start_time, duration, sleep, tpc, wake, stop_event,
                stop_called, pending, subscribed, cb, nreq, ndeliv>>
unitVars == <<lookupVars, selVars, threadVars>>
vars == <<storeVars, orchVars, histVars, unitVars>>

----------------------------------------------------------------------------
(* Bounds of the model *)

\* write_data_to_csv calls in one run of SpecStore
MaxCalls == 3
\* the id_buffer_size given to the DataStore constructor
IdBufferSize == 2

----------------------------------------------------------------------------
(* Values of the fields of a row.  A field is a Python int or a Python str; *)
(* a str is the sequence of its characters.                                 *)

IntF(n) == [t |-> "int", n |-> n, s |-> <<>>]
StrF(s) == [t |-> "str", n |-> 0, s |-> s]

\* the field values the callers are given by the exchange
FieldVals ==
  { IntF(1), StrF(<<"a">>), StrF(<<" ", "a", ",", "\n">>),
    StrF(<<"b", " ", "c">>) }

\* the rows offered to the store (two fields: index 0 and index 1)
Records == { <<f, g>> : f \in FieldVals, g \in FieldVals }

\* the csv files of the model
Paths == { "BTC-USDT", "ETH-USDT" }

\* str.replace(c, "")
Replace(s, c) == SelectSeq(s, LAMBDA x : x # c)

\* DataStore._clean_data
clean_data(data) ==
  [ i \in 1..Len(data) |->
      IF data[i].t = "str"
        THEN StrF(Replace(Replace(Replace(data[i].s, "\n"), " "), ","))
        ELSE data[i] ]

\* key in dict
InDict(ts, key) == \E i \in 1..Len(ts) : ts[i] = key

\* dict[key] = True: a new key goes last, a known key keeps its place
DictSet(ts, key) == IF InDict(ts, key) THEN ts ELSE Append(ts, key)

\* DataStore._check_unique_id.  No code of the repository calls it.  timestamps
\* is a plain dict, so popitem(last=False) raises TypeError: nothing is evicted.
check_unique_id(ts, size, id) ==
  IF InDict(ts, id)
    THEN [timestamps |-> ts, ret |-> "False"]
    ELSE IF Len(ts) + 1 > size
      THEN [timestamps |-> Append(ts, id), ret |-> "raised"]
      ELSE [timestamps |-> Append(ts, id), ret |-> "True"]

\* faulty variant: write_data_to_csv that forgets to register the id
write_data_to_csv_unregistered(ts, rows, data, idx, ok) ==
  LET d == clean_data(data) IN
  IF InDict(ts, d[idx + 1])
    THEN [timestamps |-> ts, rows |-> rows, ret |-> "None"]
    ELSE [timestamps |-> ts,
          rows |-> IF ok THEN Append(rows, d) ELSE rows,
          ret |-> IF ok THEN "None" ELSE "raised"]

\* faulty variant: write_data_to_csv without the early return on a known id
write_data_to_csv_noreturn(ts, rows, data, idx, ok) ==
  LET d == clean_data(data) IN
  [timestamps |-> DictSet(ts, d[1]),
   rows |-> IF ok THEN Append(rows, d) ELSE rows,
   ret |-> IF ok THEN "None" ELSE "raised"]

\* DataStore.write_data_to_csv on a store with dict ts and file rows; ok says
\* whether open(csv_name, 'a') and writerow succeed.  The new dict, the new
\* rows and the outcome of the call: the method returns None on both paths.
write_data_to_csv(ts, rows, data, idx, ok) ==
  LET d == clean_data(data) IN
  IF InDict(ts, d[idx + 1])
    THEN [timestamps |-> ts, rows |-> rows, ret |-> "None"]
    ELSE [timestamps |-> DictSet(ts, d[1]),
          rows |-> IF ok THEN Append(rows, d) ELSE rows,
          ret |-> IF ok THEN "None" ELSE "raised"]

\* DataStore._create_csv: open(csv_name, 'w') creates the file or truncates it
create_csv(fs, path) == [fs EXCEPT ![path] = <<>>]

----------------------------------------------------------------------------
(* SpecStore: one DataStore at a time on one csv file *)

NoStore ==
  /\ constructed = FALSE /\ csv_name = "BTC-USDT" /\ timestamps = <<>>
  /\ id_buffer_size = IdBufferSize /\ op = "none" /\ arg = <<>>
  /\ io_ok = TRUE /\ ret = "None" /\ ncalls = 0

NoFiles == files = [p \in Paths |-> <<>>] /\ present = {}

OrchIdle ==
  /\ entry = "none" /\ nsymbols = 0 /\ opc = "done" /\ bi = 0 /\ lpc = "none"
  /\ lo = 0 /\ hi = 0 /\ k = 0 /\ task = <<>> /\ starts = <<>> /\ sleeps = 0
  /\ data_store = <<>> /\ kline_interval_seconds = 3600

HistIdle ==
  /\ exchange = "none" /\ hsym = 0 /\ hpc = "done" /\ fetches = 0
  /\ resp = [kind |-> "none", code |-> 0, candles |-> <<>>]
  /\ backoffs = 0 /\ logged = FALSE /\ helapsed = 0

\* no lookup is being made
LookupIdle ==
  /\ lkex = "none" /\ lktoken = "" /\ lkseconds = 0 /\ lkop = "none"
  /\ lkerror = [isdict |-> FALSE, hascode |-> FALSE, code |-> 0]
  /\ lkout = [raised |-> "", token |-> "", seconds |-> 0, branch |-> ""]

\* no symbol selection is being made
SelectIdle ==
  /\ slex = "none" /\ listing = <<>> /\ excluded = {} /\ slpc = "none"
  /\ tracked = <<>>

\* no collection thread exists
ThreadIdle ==
  /\ cls = "none" /\ now = 0 /\ start_time = 0 /\ duration = 0 /\ sleep = 0
  /\ tpc = "none" /\ wake = 0 /\ stop_event = FALSE /\ stop_called = FALSE
  /\ pending = 0 /\ subscribed = FALSE /\ cb = <<>> /\ nreq = 0 /\ ndeliv = 0

UnitsIdle == LookupIdle /\ SelectIdle /\ ThreadIdle

InitStore ==
  /\ NoStore /\ NoFiles /\ OrchIdle /\ HistIdle /\ UnitsIdle
  /\ id_index \in {0, 1}

\* DataStore.__init__ (a task is constructed for the triple of csv_name)
Construct ==
  /\ constructed' = TRUE
  /\ files' = create_csv(files, csv_name)
  /\ present' = present \cup {csv_name}
  /\ id_buffer_size' = IdBufferSize
  /\ timestamps' = <<>>
  /\ op' = "construct"
  /\ ret' = "None"
  /\ UNCHANGED <<csv_name, id_index, arg, io_ok, ncalls>>
  /\ UNCHANGED <<orchVars, histVars, unitVars>>

\* a call of DataStore.write_data_to_csv(data, id_index)
WriteDataToCsv ==
  /\ constructed
  /\ ncalls < MaxCalls
  /\ \E data \in Records, ok \in BOOLEAN :
       LET r == write_data_to_csv(timestamps, files[csv_name], data, id_index, ok) IN
       /\ timestamps' = r.timestamps
       /\ files' = [files EXCEPT ![csv_name] = r.rows]
       /\ ret' = r.ret
       /\ arg' = data
       /\ io_ok' = ok
  /\ op' = "write"
  /\ ncalls' = ncalls + 1
  /\ UNCHANGED <<present, constructed, csv_name, id_buffer_size, id_index>>
  /\ UNCHANGED <<orchVars, histVars, unitVars>>

NextStore == Construct \/ WriteDataToCsv

SpecStore == InitStore /\ [][NextStore]_vars

----------------------------------------------------------------------------
(* The thread launchers of main.py *)

SIMULTANEOUS_REQUESTS == 5
KLINE_INTERVAL_SECONDS == 3600
\* KLINE_INTERVAL = "1hour"
KLINE_INTERVAL == StrF(<<"1", "h", "o", "u", "r">>)

\* length of the symbol list a launcher is given
MaxSymbols == 6

\* the values KLINE_INTERVAL_SECONDS is configured to: the one of main.py,
\* which every exchange has a token for, and two hours, which huobi has none for
ConfiguredSeconds == {KLINE_INTERVAL_SECONDS, 7200}

Exchanges == {"binance", "kucoin", "huobi"}

\* faulty variant: a binance table in which two tokens stand for 3600 seconds
IntervalTableAliased(ex) ==
  CASE ex = "binance" ->
         << <<"1m", 60>>, <<"1h", 3600>>, <<"60m", 3600>>, <<"1d", 86400>> >>
    [] ex = "kucoin" -> << <<"1min", 60>>, <<"1hour", 3600>> >>
    [] ex = "huobi" -> << <<"1min", 60>>, <<"60min", 3600>> >>

\* KlineIntervals._set_intervals: <<token, seconds>> in the order of the dict
IntervalTable(ex) ==
  CASE ex = "binance" ->
         << <<"1m", 60>>, <<"3m", 180>>, <<"5m", 300>>, <<"15m", 900>>,
            <<"30m", 1800>>, <<"1h", 3600>>, <<"2h", 7200>>, <<"1d", 86400>>,
            <<"1w", 604800>>, <<"1M", 2592000>> >>
    [] ex = "kucoin" ->
         << <<"1min", 60>>, <<"3min", 180>>, <<"5min", 300>>, <<"15min", 900>>,
            <<"30min", 1800>>, <<"1hour", 3600>>, <<"2hour", 7200>>,
            <<"1d", 86400>>, <<"1week", 604800>>, <<"1mon", 2592000>> >>
    [] ex = "huobi" ->
         << <<"1min", 60>>, <<"5min", 300>>, <<"15min", 900>>, <<"30min", 1800>>,
            <<"60min", 3600>>, <<"1day", 86400>>, <<"1week", 604800>>,
            <<"1mon", 2592000>> >>

\* the outcome of a lookup that raises Exception("Interval not supported")
NotSupported == "Interval not supported"

\* faulty variant: a lookup that falls back to the longest interval that is
\* not longer than the argument
get_kline_interval_from_seconds_nearest(ex, seconds) ==
  LET tab == IntervalTable(ex)
      below == { i \in 1..Len(tab) : seconds.t = "int" /\ tab[i][2] <= seconds.n }
  IN  IF below = {} THEN NotSupported
      ELSE tab[CHOOSE i \in below : \A j \in below : tab[j][2] <= tab[i][2]][1]

\* ThreadingBase._get_kline_interval_from_seconds: the first token of the table
\* whose seconds equal the argument; the argument is whatever the caller passed
\* as kl_interval, an int or a str (a str equals no int)
get_kline_interval_from_seconds(ex, seconds) ==
  LET tab == IntervalTable(ex)
      hits == { i \in 1..Len(tab) : seconds.t = "int" /\ tab[i][2] = seconds.n }
  IN  IF hits = {} THEN NotSupported
      ELSE tab[CHOOSE i \in hits : \A j \in hits : i <= j][1]

\* ThreadingBase.__init__ returns (does not raise)
ThreadInitOk(ex, kl_interval) ==
  get_kline_interval_from_seconds(ex, kl_interval) # NotSupported

Entries ==
  { "all_threads", "huobi_staggered_get_klines", "huobi_staggered_get_trades",
    "huobi_get_klines", "huobi_get_trades", "kucoin_get_klines",
    "binance_get_klines" }

\* the launchers that start their tasks slice by slice
Staggered == { "huobi_staggered_get_klines", "huobi_staggered_get_trades" }
\* the launchers called with the whole symbol list
Direct ==
  { "huobi_get_klines", "huobi_get_trades", "kucoin_get_klines",
    "binance_get_klines" }

\* number of tasks for a symbol list of length n: all_threads adds the binance
\* symbols to the two huobi and the two kucoin symbols of *_set_coins_to_track
NTasks(e, n) == IF e = "all_threads" THEN 4 + n ELSE n

\* the exchange argument of the constructor of task t
TaskExchange(e, t) ==
  CASE e = "all_threads" ->
         (IF t <= 2 THEN "huobi" ELSE IF t <= 4 THEN "kucoin" ELSE "binance")
    [] e = "kucoin_get_klines" -> "kucoin"
    [] e = "binance_get_klines" -> "binance"
    [] OTHER -> "huobi"

\* the kl_interval argument of the constructor: huobi_get_trades passes
\* KLINE_INTERVAL, every other launcher KLINE_INTERVAL_SECONDS
TaskKlInterval(e) ==
  IF e \in {"huobi_get_trades", "huobi_staggered_get_trades"}
    THEN KLINE_INTERVAL
    ELSE IntF(kline_interval_seconds)

\* the metric argument of the constructor
TaskMetric(e) ==
  IF e \in {"huobi_get_trades", "huobi_staggered_get_trades"}
    THEN "trades" ELSE "klines"

\* the symbol argument of the constructor of task t: its place in the symbol
\* list of its exchange (the symbols of one list are distinct)
TaskSymbol(e, t) ==
  IF e = "all_threads"
    THEN (IF t <= 2 THEN t ELSE IF t <= 4 THEN t - 2 ELSE t - 4)
    ELSE t

\* f"data/{self.exchange}/{self.metric}/{self.symbol}.csv"
CsvName(ex, metric, symbol) == <<"data", ex, metric, symbol, ".csv">>

\* a task that has not been constructed has no DataStore
NoDataStore == [obj |-> 0, csv_name |-> <<>>]

\* faulty variant: one DataStore, built for the first task, is handed to every
\* constructor as its data_store argument
NewDataStoreShared(e, t) ==
  [obj |-> 1,
   csv_name |-> CsvName(TaskExchange(e, 1), TaskMetric(e), TaskSymbol(e, 1))]

\* ThreadingBase.__init__, lines 248-250: no launcher passes data_store, so
\* the constructor of task t builds a DataStore of its own (obj is the
\* identity of the new object) on the path made of its three arguments
NewDataStore(e, t) ==
  [obj |-> t,
   csv_name |-> CsvName(TaskExchange(e, t), TaskMetric(e), TaskSymbol(e, t))]

Min(a, b) == IF a < b THEN a ELSE b

\* faulty variant: a slice one element too long: threads[i:i+SIMULTANEOUS_REQUESTS+1]
SliceEndWide(i, n) == Min(i + SIMULTANEOUS_REQUESTS + 1, n)

\* the end of the slice [i:i+SIMULTANEOUS_REQUESTS] of a list of length n
SliceEnd(i, n) == Min(i + SIMULTANEOUS_REQUESTS, n)

\* faulty variant: a join that does not wait
JoinReturnsAtOnce(st) == TRUE

\* Thread.join() returns: the thread has ended, by returning or by raising
JoinReturns(st) == st \in {"exited", "failed"}

\* faulty variant: an exception of one collection loop takes the running threads down
RaiseKillsAll(tk, t) ==
  [u \in DOMAIN tk |-> IF tk[u] = "running" THEN "failed" ELSE tk[u]]

\* collection_loop of task t raises: run() is left by the exception, the thread
\* ends without self.stop(), no other thread is touched
Raise(tk, t) == [tk EXCEPT ![t] = "failed"]

N == NTasks(entry, nsymbols)

InitOrch ==
  /\ NoStore /\ NoFiles /\ HistIdle /\ UnitsIdle /\ id_index = 0
  /\ entry \in Entries
  /\ nsymbols \in 0..MaxSymbols
  /\ kline_interval_seconds \in ConfiguredSeconds
  /\ task = [t \in 1..NTasks(entry, nsymbols) |-> "none"]
  /\ starts = [t \in 1..NTasks(entry, nsymbols) |-> 0]
  /\ data_store = [t \in 1..NTasks(entry, nsymbols) |-> NoDataStore]
  /\ bi = 0 /\ k = 0 /\ sleeps = 0 /\ lo = 0
  /\ hi = IF entry \in Direct THEN nsymbols ELSE 0
  /\ lpc = IF entry \in Direct THEN "build" ELSE "none"
  /\ opc = CASE entry = "all_threads" -> "build"
             [] entry \in Direct -> "call"
             [] OTHER -> IF nsymbols > 0 THEN "spawn" ELSE "done"

\* Thread.start() on task t, then the next position of the start loop over
\* lo+1..hi: the new task map, start counts, k and whether the loop is over
StartStep(first, last) ==
  LET t == first + k + 1 IN
  /\ task[t] = "new"
  /\ task' = [task EXCEPT ![t] = "running"]
  /\ starts' = [starts EXCEPT ![t] = @ + 1]
  /\ k' = IF t = last THEN 0 ELSE k + 1

\* all_threads, lines 636-648: the constructors of all tasks
AllThreadsBuild ==
  /\ entry = "all_threads" /\ opc = "build"
  /\ IF \A t \in 1..N : ThreadInitOk(TaskExchange(entry, t), TaskKlInterval(entry))
       THEN /\ task' = [t \in 1..N |-> "new"]
            /\ data_store' = [t \in 1..N |-> NewDataStore(entry, t)]
            /\ opc' = IF N > 0 THEN "start" ELSE "done"
       ELSE /\ task' = task
            /\ data_store' = data_store
            /\ opc' = "raised"
  /\ UNCHANGED <<entry, nsymbols, bi, lpc, lo, hi, k, starts, sleeps>>
  /\ UNCHANGED kline_interval_seconds
  /\ UNCHANGED <<storeVars, histVars, unitVars>>

\* all_threads, lines 652-653: t.start() for the next task of the slice
AllThreadsStart ==
  /\ entry = "all_threads" /\ opc = "start"
  /\ StartStep(bi, SliceEnd(bi, N))
  /\ opc' = IF bi + k + 1 = SliceEnd(bi, N) THEN "join" ELSE "start"
  /\ UNCHANGED <<entry, nsymbols, bi, lpc, lo, hi, sleeps>>
  /\ UNCHANGED <<data_store, kline_interval_seconds>>
  /\ UNCHANGED <<storeVars, histVars, unitVars>>

\* all_threads, lines 654-655: t.join() for the next task of the slice
AllThreadsJoin ==
  /\ entry = "all_threads" /\ opc = "join"
  /\ JoinReturns(task[bi + k + 1])
  /\ k' = IF bi + k + 1 = SliceEnd(bi, N) THEN 0 ELSE k + 1
  /\ opc' = IF bi + k + 1 = SliceEnd(bi, N) THEN "sleep" ELSE "join"
  /\ UNCHANGED <<entry, nsymbols, bi, lpc, lo, hi, task, starts, sleeps>>
  /\ UNCHANGED <<data_store, kline_interval_seconds>>
  /\ UNCHANGED <<storeVars, histVars, unitVars>>

\* all_threads, line 656 and the next value of i
AllThreadsSleep ==
  /\ entry = "all_threads" /\ opc = "sleep"
  /\ sleeps' = sleeps + 1
  /\ bi' = bi + SIMULTANEOUS_REQUESTS
  /\ opc' = IF bi + SIMULTANEOUS_REQUESTS < N THEN "start" ELSE "done"
  /\ UNCHANGED <<entry, nsymbols, lpc, lo, hi, k, task, starts>>
  /\ UNCHANGED <<data_store, kline_interval_seconds>>
  /\ UNCHANGED <<storeVars, histVars, unitVars>>

\* huobi_staggered_get_*: the launcher thread for the slice is created and
\* started
StaggeredSpawn ==
  /\ entry \in Staggered /\ opc = "spawn"
  /\ lpc' = "build" /\ lo' = bi /\ hi' = SliceEnd(bi, N) /\ k' = 0
  /\ opc' = "join"
  /\ UNCHANGED <<entry, nsymbols, bi, task, starts, sleeps>>
  /\ UNCHANGED <<data_store, kline_interval_seconds>>
  /\ UNCHANGED <<storeVars, histVars, unitVars>>

\* huobi_staggered_get_*: t.join() of the launcher thread, threads = []
StaggeredJoin ==
  /\ entry \in Staggered /\ opc = "join"
  /\ lpc \in {"done", "raised"}
  /\ lpc' = "none"
  /\ opc' = "sleep"
  /\ UNCHANGED <<entry, nsymbols, bi, lo, hi, k, task, starts, sleeps>>
  /\ UNCHANGED <<data_store, kline_interval_seconds>>
  /\ UNCHANGED <<storeVars, histVars, unitVars>>

\* huobi_staggered_get_*: time.sleep(SLEEP_BETWEEN_THREAD_GEN), next i
StaggeredSleep ==
  /\ entry \in Staggered /\ opc = "sleep"
  /\ sleeps' = sleeps + 1
  /\ bi' = bi + SIMULTANEOUS_REQUESTS
  /\ opc' = IF bi + SIMULTANEOUS_REQUESTS < N THEN "spawn" ELSE "done"
  /\ UNCHANGED <<entry, nsymbols, lpc, lo, hi, k, task, starts>>
  /\ UNCHANGED <<data_store, kline_interval_seconds>>
  /\ UNCHANGED <<storeVars, histVars, unitVars>>

\* huobi_get_klines, huobi_get_trades, kucoin_get_klines, binance_get_klines:
\* the constructors of the tasks of the symbols lo+1..hi, in list order; the
\* first constructor that raises ends the launcher
LauncherBuild ==
  /\ lpc = "build"
  /\ IF \A t \in lo+1..hi : ThreadInitOk(TaskExchange(entry, t), TaskKlInterval(entry))
       THEN /\ task' = [t \in DOMAIN task |->
                          IF t \in lo+1..hi THEN "new" ELSE task[t]]
            /\ data_store' = [t \in DOMAIN task |->
                                IF t \in lo+1..hi THEN NewDataStore(entry, t)
                                ELSE data_store[t]]
            /\ lpc' = IF hi > lo THEN "start" ELSE "done"
       ELSE /\ task' = task
            /\ data_store' = data_store
            /\ lpc' = "raised"
  /\ UNCHANGED <<entry, nsymbols, opc, bi, lo, hi, k, starts, sleeps>>
  /\ UNCHANGED kline_interval_seconds
  /\ UNCHANGED <<storeVars, histVars, unitVars>>

\* the launcher's t.start() for its next task
LauncherStart ==
  /\ lpc = "start"
  /\ StartStep(lo, hi)
  /\ lpc' = IF lo + k + 1 = hi THEN "join" ELSE "start"
  /\ UNCHANGED <<entry, nsymbols, opc, bi, lo, hi, sleeps>>
  /\ UNCHANGED <<data_store, kline_interval_seconds>>
  /\ UNCHANGED <<storeVars, histVars, unitVars>>

\* the launcher's t.join() for its next task
LauncherJoin ==
  /\ lpc = "join"
  /\ JoinReturns(task[lo + k + 1])
  /\ k' = IF lo + k + 1 = hi THEN 0 ELSE k + 1
  /\ lpc' = IF lo + k + 1 = hi THEN "done" ELSE "join"
  /\ UNCHANGED <<entry, nsymbols, opc, bi, lo, hi, task, starts, sleeps>>
  /\ UNCHANGED <<data_store, kline_interval_seconds>>
  /\ UNCHANGED <<storeVars, histVars, unitVars>>

\* a launcher called directly returns, or the exception of a constructor
\* leaves it
LauncherReturn ==
  /\ entry \in Direct /\ opc = "call"
  /\ lpc \in {"done", "raised"}
  /\ opc' = lpc
  /\ lpc' = "none"
  /\ UNCHANGED <<entry, nsymbols, bi, lo, hi, k, task, starts, sleeps>>
  /\ UNCHANGED <<data_store, kline_interval_seconds>>
  /\ UNCHANGED <<storeVars, histVars, unitVars>>

\* ThreadingBase.run of task t: collection_loop returns, self.stop()
TaskExit(t) ==
  /\ task[t] = "running"
  /\ task' = [task EXCEPT ![t] = "exited"]
  /\ UNCHANGED <<entry, nsymbols, opc, bi, lpc, lo, hi, k, starts, sleeps>>
  /\ UNCHANGED <<data_store, kline_interval_seconds>>
  /\ UNCHANGED <<storeVars, histVars, unitVars>>

\* ThreadingBase.run of task t: collection_loop raises
TaskFail(t) ==
  /\ task[t] = "running"
  /\ task' = Raise(task, t)
  /\ UNCHANGED <<entry, nsymbols, opc, bi, lpc, lo, hi, k, starts, sleeps>>
  /\ UNCHANGED <<data_store, kline_interval_seconds>>
  /\ UNCHANGED <<storeVars, histVars, unitVars>>

NextOrch ==
  \/ AllThreadsBuild \/ AllThreadsStart \/ AllThreadsJoin \/ AllThreadsSleep
  \/ StaggeredSpawn \/ StaggeredJoin \/ StaggeredSleep
  \/ LauncherBuild \/ LauncherStart \/ LauncherJoin \/ LauncherReturn
  \/ \E t \in DOMAIN task : TaskExit(t)
  \/ \E t \in DOMAIN task : TaskFail(t)

SpecOrch == InitOrch /\ [][NextOrch]_vars

----------------------------------------------------------------------------
(* HistoricalKlines and get_historical_all *)

\* candles in one response of get_kline_history
MaxCandles == 2
\* get_kline_history calls for one symbol
MaxFetches == 3
\* seconds one get_kline_history call can take
MaxFetchTime == 1

\* DURATION and DELAY_AFTER_TIMEOUT of main.py, in seconds
DURATION == 999999
DELAY_AFTER_TIMEOUT == 20

\* ErrorCodes._set_error_codes and ErrorCodes.get_error_code
get_error_code(ex, error_name) ==
  CASE ex = "binance" -> (IF error_name = "TOO_MANY_REQUESTS" THEN -1003 ELSE -1001)
    [] ex = "kucoin" -> (IF error_name = "TOO_MANY_REQUESTS" THEN 429 ELSE 504)
    [] ex = "huobi" -> (IF error_name = "TOO_MANY_REQUESTS" THEN 429 ELSE 504)

\* faulty variant: a lookup that answers with the first token of the table
\* when no entry has the seconds asked for
get_exchange_interval_default(ex, interval_seconds) ==
  LET tab == IntervalTable(ex)
      hits == { i \in 1..Len(tab) : tab[i][2] = interval_seconds }
  IN  IF hits = {} THEN tab[1][1]
      ELSE tab[CHOOSE i \in hits : \A j \in hits : i <= j][1]

\* HistoricalKlines._get_exchange_interval
get_exchange_interval(ex, interval_seconds) ==
  LET tab == IntervalTable(ex)
      hits == { i \in 1..Len(tab) : tab[i][2] = interval_seconds }
  IN  IF hits = {} THEN NotSupported
      ELSE tab[CHOOSE i \in hits : \A j \in hits : i <= j][1]

\* A candle of a response: a list [time, open, close, high, low, volume,
\* turnover] of strings, a dict {id, open, close, low, high, amount, vol} of
\* numbers (v holds the values in that order), or something _format_klines
\* cannot index.
ListCandle(t) ==
  [shape |-> "list",
   v |-> <<StrF(<<t>>), StrF(<<"o">>), StrF(<<"c">>), StrF(<<"h">>),
           StrF(<<"l">>), StrF(<<"v">>), StrF(<<"e">>)>>]
DictCandle(n) ==
  [shape |-> "dict",
   v |-> <<IntF(n), IntF(11), IntF(12), IntF(13), IntF(14), IntF(15), IntF(16)>>]
BadCandle == [shape |-> "bad", v |-> <<>>]

Candles ==
  { ListCandle("1"), ListCandle("2"), DictCandle(1), DictCandle(2), BadCandle }

CandleLists ==
  UNION { [1..n -> Candles] : n \in 0..MaxCandles }

\* the error codes an exchange answers with
Codes == {429, 504, -1003, -1001, 400}

\* What get_kline_history does: it returns a list of candles, a dict with the
\* candles under "data", an error dict {"code": ...} without "data", None, or
\* it raises (the request fails).
Responses ==
  { [kind |-> kd, code |-> 0, candles |-> cs] :
      kd \in {"list", "dict"}, cs \in CandleLists }
  \cup { [kind |-> "error", code |-> c, candles |-> <<>>] : c \in Codes }
  \cup { [kind |-> "none", code |-> 0, candles |-> <<>>],
         [kind |-> "raise", code |-> 0, candles |-> <<>>] }

\* faulty variant: a row that starts with the opening price
format_klines_price_first(data) ==
  <<data.v[2], data.v[1], data.v[3], data.v[4], data.v[5], data.v[6],
    data.v[7]>>

\* HistoricalKlines._format_klines
format_klines(data) ==
  IF data.shape = "dict"
    THEN <<data.v[1], data.v[2], data.v[3], data.v[5], data.v[4], data.v[7],
           data.v[6]>>
    ELSE <<data.v[1], data.v[7], data.v[2], data.v[3], data.v[4], data.v[5],
           data.v[6]>>

\* The loop of _store_klines from candle i on: each candle is formatted and
\* written with id_index = 0; the first exception ends the loop.  failAt is the
\* position of the candle whose file append fails (0: none).
RECURSIVE store_candles(_, _, _, _, _)
store_candles(ts, rows, candles, i, failAt) ==
  IF i > Len(candles)
    THEN [timestamps |-> ts, rows |-> rows, raised |-> FALSE]
    ELSE IF candles[i].shape = "bad"
      THEN [timestamps |-> ts, rows |-> rows, raised |-> TRUE]
      ELSE LET r == write_data_to_csv(ts, rows, format_klines(candles[i]), 0,
                                      i # failAt)
           IN  IF r.ret = "raised"
                 THEN [timestamps |-> r.timestamps, rows |-> r.rows, raised |-> TRUE]
                 ELSE store_candles(r.timestamps, r.rows, candles, i + 1, failAt)

\* The try block of _store_klines on the value get_kline_history returned:
\* klines["data"] of a dict without "data" raises KeyError, iterating None
\* raises TypeError.
store_klines(ts, rows, klines, failAt) ==
  IF klines.kind \in {"error", "none"}
    THEN [timestamps |-> ts, rows |-> rows, raised |-> TRUE]
    ELSE store_candles(ts, rows, klines.candles, 1, failAt)

\* what the except clause of _store_klines hands to _error_handler: the
\* exception object, which is not a dict
CaughtException == [isdict |-> FALSE, hascode |-> FALSE, code |-> 0]

\* The branch _error_handler takes on an error: the two retry branches, the
\* else branch of a dict with another code, the else branch of an error that
\* is not a dict; error["code"] of a dict without "code" raises KeyError.
error_branch(ex, error) ==
  IF error.isdict
    THEN IF ~error.hascode THEN "KeyError"
         ELSE IF error.code = get_error_code(ex, "TOO_MANY_REQUESTS")
           THEN "TOO_MANY_REQUESTS"
         ELSE IF error.code = get_error_code(ex, "TIMEOUT") THEN "TIMEOUT"
         ELSE "other code"
    ELSE "not dict"

\* faulty variant: _error_handler that calls save_klines again on every error
error_handler_retry_all(ex, error) == "retry"

\* HistoricalKlines._error_handler: "retry" is sleep(DELAY_AFTER_TIMEOUT) and
\* save_klines() again, "log" is the two prints
error_handler(ex, error) ==
  CASE error_branch(ex, error) \in {"TOO_MANY_REQUESTS", "TIMEOUT"} -> "retry"
    [] error_branch(ex, error) = "KeyError" -> "raised"
    [] OTHER -> "log"

\* kc_symbols = ["BTC-USDT", "ETH-USDT"]
HistSymbols == <<"BTC-USDT", "ETH-USDT">>

InitHist ==
  /\ NoStore /\ NoFiles /\ OrchIdle /\ UnitsIdle /\ id_index = 0
  /\ exchange \in Exchanges
  /\ hsym = 1 /\ hpc = "construct" /\ fetches = 0 /\ backoffs = 0
  /\ logged = FALSE /\ helapsed = 0
  /\ resp = [kind |-> "none", code |-> 0, candles |-> <<>>]

\* HistoricalKlines.__init__ for the next symbol of get_historical_all
HistConstruct ==
  /\ hpc = "construct"
  /\ IF get_exchange_interval(exchange, KLINE_INTERVAL_SECONDS) = NotSupported
       THEN /\ hpc' = "raised"
            /\ UNCHANGED <<files, present, constructed, csv_name, timestamps>>
       ELSE /\ hpc' = "fetch"
            /\ constructed' = TRUE
            /\ csv_name' = HistSymbols[hsym]
            /\ files' = create_csv(files, HistSymbols[hsym])
            /\ present' = present \cup {HistSymbols[hsym]}
            /\ timestamps' = <<>>
  /\ fetches' = 0 /\ backoffs' = 0 /\ logged' = FALSE /\ helapsed' = 0
  /\ op' = "construct"
  /\ UNCHANGED <<id_buffer_size, id_index, arg, io_ok, ret, ncalls>>
  /\ UNCHANGED <<exchange, hsym, resp>>
  /\ UNCHANGED <<orchVars, unitVars>>

\* save_klines, lines 227-228: the call of get_kline_history, which takes up
\* to MaxFetchTime seconds
HistFetch ==
  /\ hpc = "fetch"
  /\ fetches < MaxFetches
  /\ \E r \in Responses :
       /\ resp' = r
       /\ hpc' = IF r.kind = "raise" THEN "raised" ELSE "store"
  /\ \E d \in 0..MaxFetchTime : helapsed' = helapsed + d
  /\ fetches' = fetches + 1
  /\ UNCHANGED <<exchange, hsym, backoffs, logged>>
  /\ UNCHANGED <<storeVars, orchVars, unitVars>>

\* save_klines, line 229: _store_klines(klines) and, when its try block
\* raises, _error_handler(e)
HistStore ==
  /\ hpc = "store"
  /\ \E failAt \in 0..Len(resp.candles) :
       LET r == store_klines(timestamps, files[csv_name], resp, failAt) IN
       /\ timestamps' = r.timestamps
       /\ files' = [files EXCEPT ![csv_name] = r.rows]
       /\ IF r.raised
            THEN IF error_handler(exchange, CaughtException) = "retry"
                   THEN /\ backoffs' = backoffs + 1
                        /\ helapsed' = helapsed + DELAY_AFTER_TIMEOUT
                        /\ hpc' = "fetch"
                        /\ logged' = logged
                   ELSE /\ backoffs' = backoffs
                        /\ helapsed' = helapsed
                        /\ hpc' = "sleep"
                        /\ logged' = TRUE
            ELSE /\ backoffs' = backoffs
                 /\ helapsed' = helapsed
                 /\ hpc' = "sleep"
                 /\ logged' = logged
  /\ op' = "write"
  /\ UNCHANGED <<present, constructed, csv_name, id_buffer_size, id_index, arg,
                 io_ok, ret, ncalls>>
  /\ UNCHANGED <<exchange, hsym, resp, fetches>>
  /\ UNCHANGED <<orchVars, unitVars>>

\* get_historical_all, line 623: time.sleep(SLEEP_BETWEEN_HISTORY_REQUESTS),
\* then the next symbol
HistSleep ==
  /\ hpc = "sleep"
  /\ hsym' = IF hsym < Len(HistSymbols) THEN hsym + 1 ELSE hsym
  /\ hpc' = IF hsym < Len(HistSymbols) THEN "construct" ELSE "done"
  /\ UNCHANGED <<exchange, resp, fetches, backoffs, logged, helapsed>>
  /\ UNCHANGED <<storeVars, orchVars, unitVars>>

NextHist == HistConstruct \/ HistFetch \/ HistStore \/ HistSleep

SpecHist == InitHist /\ [][NextHist]_vars

----------------------------------------------------------------------------
(* The lookups: KlineIntervals, the two seconds-to-token loops, and the     *)
(* branch _error_handler takes, each applied to arguments drawn in Init     *)

\* the tokens of the three tables, and one that is in none of them
Tokens ==
  UNION { { IntervalTable(ex)[i][1] : i \in 1..Len(IntervalTable(ex)) } :
            ex \in Exchanges } \cup {"7m"}

\* the seconds of the three tables, and one value that is in none of them
SecondsArgs ==
  UNION { { IntervalTable(ex)[i][2] : i \in 1..Len(IntervalTable(ex)) } :
            ex \in Exchanges } \cup {120}

\* the errors a caller can hand to _error_handler: a dict with a "code", a
\* dict without one, an exception object
ErrorArgs ==
  { [isdict |-> TRUE, hascode |-> TRUE, code |-> c] : c \in Codes }
  \cup { [isdict |-> TRUE, hascode |-> FALSE, code |-> 0], CaughtException }

\* the outcome of self.intervals[interval] for a token that is not a key
KeyError == "KeyError"

\* KlineIntervals.get_interval_seconds: self.intervals[interval]
get_interval_seconds(ex, interval) ==
  LET tab == IntervalTable(ex)
      hits == { i \in 1..Len(tab) : tab[i][1] = interval }
  IN  IF hits = {} THEN [raised |-> KeyError, seconds |-> 0]
      ELSE [raised |-> "", seconds |-> tab[CHOOSE i \in hits : TRUE][2]]

\* KlineIntervals.get_intervals: the keys of the table
get_intervals(ex) ==
  { IntervalTable(ex)[i][1] : i \in 1..Len(IntervalTable(ex)) }

\* what a lookup that yields a token (or NotSupported) leaves in lkout
TokenOut(r) ==
  IF r = NotSupported
    THEN [raised |-> NotSupported, token |-> "", seconds |-> 0, branch |-> ""]
    ELSE [raised |-> "", token |-> r, seconds |-> 0, branch |-> ""]

InitLookup ==
  /\ NoStore /\ NoFiles /\ OrchIdle /\ HistIdle /\ SelectIdle /\ ThreadIdle
  /\ id_index = 0
  /\ lkex \in Exchanges
  /\ lktoken \in Tokens
  /\ lkseconds \in SecondsArgs
  /\ lkerror \in ErrorArgs
  /\ lkop = "none"
  /\ lkout = [raised |-> "", token |-> "", seconds |-> 0, branch |-> ""]

\* KlineIntervals(lkex).get_interval_seconds(lktoken)
GetIntervalSeconds ==
  /\ lkop' = "get_interval_seconds"
  /\ lkout' = [raised |-> get_interval_seconds(lkex, lktoken).raised,
               token |-> "",
               seconds |-> get_interval_seconds(lkex, lktoken).seconds,
               branch |-> ""]
  /\ UNCHANGED <<lkex, lktoken, lkseconds, lkerror>>
  /\ UNCHANGED <<storeVars, orchVars, histVars, selVars, threadVars>>

\* ThreadingBase._get_kline_interval_from_seconds(lkseconds)
GetKlineIntervalFromSeconds ==
  /\ lkop' = "get_kline_interval_from_seconds"
  /\ lkout' = TokenOut(get_kline_interval_from_seconds(lkex, IntF(lkseconds)))
  /\ UNCHANGED <<lkex, lktoken, lkseconds, lkerror>>
  /\ UNCHANGED <<storeVars, orchVars, histVars, selVars, threadVars>>

\* HistoricalKlines._get_exchange_interval(lkseconds)
GetExchangeInterval ==
  /\ lkop' = "get_exchange_interval"
  /\ lkout' = TokenOut(get_exchange_interval(lkex, lkseconds))
  /\ UNCHANGED <<lkex, lktoken, lkseconds, lkerror>>
  /\ UNCHANGED <<storeVars, orchVars, histVars, selVars, threadVars>>

\* HistoricalKlines._error_handler(lkerror), up to the branch it takes
ErrorHandler ==
  /\ lkop' = "error_handler"
  /\ lkout' = [raised |-> IF error_branch(lkex, lkerror) = "KeyError"
                            THEN KeyError ELSE "",
               token |-> "", seconds |-> 0,
               branch |-> IF error_branch(lkex, lkerror) = "KeyError"
                            THEN "" ELSE error_branch(lkex, lkerror)]
  /\ UNCHANGED <<lkex, lktoken, lkseconds, lkerror>>
  /\ UNCHANGED <<storeVars, orchVars, histVars, selVars, threadVars>>

NextLookup ==
  GetIntervalSeconds \/ GetKlineIntervalFromSeconds \/ GetExchangeInterval
    \/ ErrorHandler

SpecLookup == InitLookup /\ [][NextLookup]_vars

----------------------------------------------------------------------------
(* The symbol selection: binance_set_coins_to_track,                        *)
(* kucoin_set_coins_to_track, huobi_set_coins_to_track                      *)

\* entries of a raw listing
MaxListing == 3

\* the symbol identifiers an exchange lists, in the sort order of str
Symbols(ex) ==
  CASE ex = "binance" -> <<"ADAUSDT", "BTCUSDT", "ETHUSDT">>
    [] ex = "kucoin" -> <<"ADA-USDT", "BTC-USDT", "ETH-USDT">>
    [] ex = "huobi" -> <<"adausdt", "btcusdt", "ethusdt">>

SymbolSet(ex) == { Symbols(ex)[i] : i \in 1..Len(Symbols(ex)) }

\* The raw listings of an exchange: each entry is a symbol and whether the
\* exchange reports it as tradable (status 'TRADING', enableTrading True,
\* state 'online'); a listing names a symbol once.
Listings(ex) ==
  { l \in UNION { [1..n -> [symbol : SymbolSet(ex), trading : BOOLEAN]] :
                    n \in 0..MaxListing } :
      \A i, j \in 1..Len(l) : l[i].symbol = l[j].symbol => i = j }

\* the symbol column of a list of rows
SymbolColumn(rows) == [ i \in 1..Len(rows) |-> rows[i].symbol ]

\* filter_offline: the rows the exchange reports as tradable, in listing order
filter_offline(symbols) == SelectSeq(symbols, LAMBDA row : row.trading)

\* filter_excluded: the rows whose symbol is not in excluded_coins
filter_excluded(symbols, excluded_coins) ==
  SelectSeq(symbols, LAMBDA row : row.symbol \notin excluded_coins)

\* faulty variant: the tradable symbols in the opposite of the listing order
binance_set_coins_to_track_reversed(bn_symbols) ==
  LET online == SymbolColumn(filter_offline(bn_symbols))
  IN  [ i \in 1..Len(online) |-> online[Len(online) + 1 - i] ]

\* binance_set_coins_to_track: only filter_offline is applied, the call of
\* filter_excluded and the intersection are commented out
binance_set_coins_to_track(bn_symbols) ==
  SymbolColumn(filter_offline(bn_symbols))

\* kucoin_set_coins_to_track: the intersection of the two filters is
\* overwritten by the literal list
kucoin_set_coins_to_track(kc_symbols) ==
  LET kc_symbols_included ==
        SymbolColumn(filter_excluded(kc_symbols, {"BTC-USDT", "ETH-USDT"}))
      kc_symbols_online == SymbolColumn(filter_offline(kc_symbols))
  IN  <<"BTC-USDT", "ETH-USDT">>

\* huobi_set_coins_to_track: the intersection of the two filters is
\* overwritten by the literal list
huobi_set_coins_to_track(hb_symbols) ==
  LET hb_symbols_excluded == SymbolColumn(filter_excluded(hb_symbols, {}))
      hb_symbols_offline == SymbolColumn(filter_offline(hb_symbols))
  IN  <<"btcusdt", "ethusdt">>

InitSelect ==
  /\ NoStore /\ NoFiles /\ OrchIdle /\ HistIdle /\ LookupIdle /\ ThreadIdle
  /\ id_index = 0
  /\ slex \in Exchanges
  /\ listing \in Listings(slex)
  /\ excluded \in SUBSET SymbolSet(slex)
  /\ slpc = "call"
  /\ tracked = <<>>

BinanceSetCoinsToTrack ==
  /\ slpc = "call" /\ slex = "binance"
  /\ tracked' = binance_set_coins_to_track(listing)
  /\ slpc' = "done"
  /\ UNCHANGED <<slex, listing, excluded>>
  /\ UNCHANGED <<storeVars, orchVars, histVars, lookupVars, threadVars>>

KucoinSetCoinsToTrack ==
  /\ slpc = "call" /\ slex = "kucoin"
  /\ tracked' = kucoin_set_coins_to_track(listing)
  /\ slpc' = "done"
  /\ UNCHANGED <<slex, listing, excluded>>
  /\ UNCHANGED <<storeVars, orchVars, histVars, lookupVars, threadVars>>

HuobiSetCoinsToTrack ==
  /\ slpc = "call" /\ slex = "huobi"
  /\ tracked' = huobi_set_coins_to_track(listing)
  /\ slpc' = "done"
  /\ UNCHANGED <<slex, listing, excluded>>
  /\ UNCHANGED <<storeVars, orchVars, histVars, lookupVars, threadVars>>

NextSelect ==
  BinanceSetCoinsToTrack \/ KucoinSetCoinsToTrack \/ HuobiSetCoinsToTrack

SpecSelect == InitSelect /\ [][NextSelect]_vars

----------------------------------------------------------------------------
(* One collection thread: ThreadingBase.run, the collection_loop of its     *)
(* class, the callbacks the exchange SDK runs for it, and the clock         *)

\* the last reading of the clock
MaxTime == 4
\* adapter calls of one polling thread
MaxRequests == 2
\* callbacks run for one thread
MaxDeliveries == 3

Classes ==
  { "HBTradingDataCollectionThread", "HBKlineDataCollectionThread",
    "KCKlineDataCollectionThread", "BNCandlestickDataCollectionThread" }
\* the classes whose collection_loop calls the adapter on every iteration
Polling ==
  { "HBTradingDataCollectionThread", "BNCandlestickDataCollectionThread" }
\* the classes whose collection_loop subscribes once
Streaming == { "HBKlineDataCollectionThread", "KCKlineDataCollectionThread" }

\* the duration and sleep arguments of the constructor, in clock units
Durations == {1, 2}
Sleeps == {1, 2}
\* the ids (tradeId, candle start time) the exchange delivers
Ids == {1, 2}
\* the threads of the SDK that run callbacks
CallbackThreads == {1, 2}

\* the list a callback passes to write_data_to_csv for the record with id n
CallbackRow(n) == <<IntF(n), StrF(<<"c", " ">>)>>

\* faulty variant: a deadline test that reports the timeout two clock units late
timeout_cb_late(t, start, dur) == t - start > dur + 2

\* ThreadingBase._timeout_cb
timeout_cb(t, start, dur) == t - start > dur

IdleCallback == [pc |-> "idle", data |-> <<>>, at |-> 0]

\* faulty variant: a stop() that flips the flag
stop_flips(event) == ~event

\* ThreadingBase.stop: self._stop_event.set(); the new value of the flag.
\* No code of the repository calls Event.clear().
stop(event) == TRUE

\* faulty variant: run() that keeps the start_time __init__ has set
run_start_time_kept(t, init_time) == init_time

\* ThreadingBase.run, line 296: self.start_time = time.time() replaces the
\* start_time that __init__ set at construction (line 256)
run_start_time(t, init_time) == t

InitThread ==
  /\ OrchIdle /\ HistIdle /\ LookupIdle /\ SelectIdle
  \* ThreadingBase.__init__ has run: the DataStore and its csv file exist
  /\ constructed = TRUE /\ csv_name = "BTC-USDT" /\ timestamps = <<>>
  /\ id_buffer_size = IdBufferSize /\ op = "construct" /\ arg = <<>>
  /\ io_ok = TRUE /\ ret = "None" /\ ncalls = 0 /\ id_index = 0
  /\ files = [p \in Paths |-> <<>>] /\ present = {"BTC-USDT"}
  /\ cls \in Classes
  /\ duration \in Durations
  \* only the polling classes use their sleep argument
  /\ sleep \in IF cls \in Polling THEN Sleeps ELSE {1}
  /\ now = 0 /\ start_time = 0 /\ tpc = "new" /\ wake = 0
  /\ stop_event = FALSE /\ stop_called = FALSE
  /\ pending = 0 /\ subscribed = FALSE
  /\ cb = [c \in CallbackThreads |-> IdleCallback]
  /\ nreq = 0 /\ ndeliv = 0

\* time passes
Tick ==
  /\ now < MaxTime
  /\ now' = now + 1
  /\ UNCHANGED <<cls, start_time, duration, sleep, tpc, wake, stop_event,
                 stop_called, pending, subscribed, cb, nreq, ndeliv>>
  /\ UNCHANGED <<storeVars, orchVars, histVars, lookupVars, selVars>>

\* start() and the first statements of run(): start_time = time.time(), then
\* collection_loop() is entered
ThreadRun ==
  /\ tpc = "new"
  /\ start_time' = run_start_time(now, start_time)
  /\ tpc' = CASE cls = "HBTradingDataCollectionThread" -> "request"
             [] cls = "BNCandlestickDataCollectionThread" -> "check"
             [] OTHER -> "subscribe"
  /\ UNCHANGED <<cls, now, duration, sleep, wake, stop_event, stop_called,
                 pending, subscribed, cb, nreq, ndeliv>>
  /\ UNCHANGED <<storeVars, orchVars, histVars, lookupVars, selVars>>

\* the test of the while loop of a polling class: not self._timeout_cb().
\* HBTrading then sleeps, BNCandlestick then calls the adapter.
LoopCheck ==
  /\ tpc = "check"
  /\ IF timeout_cb(now, start_time, duration)
       THEN tpc' = "exit" /\ wake' = wake
       ELSE IF cls = "HBTradingDataCollectionThread"
         THEN tpc' = "sleep" /\ wake' = now + sleep
         ELSE tpc' = "request" /\ wake' = wake
  /\ UNCHANGED <<cls, now, start_time, duration, sleep, stop_event, stop_called,
                 pending, subscribed, cb, nreq, ndeliv>>
  /\ UNCHANGED <<storeVars, orchVars, histVars, lookupVars, selVars>>

\* api.request_trades(...) of HBTrading, api.subscribe_to_candlestick(...) of
\* BNCandlestick: the call returns, its response is delivered to the callback
\* later.  BNCandlestick then sleeps kl_interval_seconds.
Request ==
  /\ tpc = "request"
  /\ nreq < MaxRequests
  /\ nreq' = nreq + 1
  /\ pending' = pending + 1
  /\ IF cls = "HBTradingDataCollectionThread"
       THEN tpc' = "check" /\ wake' = wake
       ELSE tpc' = "sleep" /\ wake' = now + sleep
  /\ UNCHANGED <<cls, now, start_time, duration, sleep, stop_event, stop_called,
                 subscribed, cb, ndeliv>>
  /\ UNCHANGED <<storeVars, orchVars, histVars, lookupVars, selVars>>

\* time.sleep(...) returns
SleepEnd ==
  /\ tpc = "sleep"
  /\ now >= wake
  /\ tpc' = IF cls = "HBTradingDataCollectionThread" THEN "request" ELSE "check"
  /\ UNCHANGED <<cls, now, start_time, duration, sleep, wake, stop_event,
                 stop_called, pending, subscribed, cb, nreq, ndeliv>>
  /\ UNCHANGED <<storeVars, orchVars, histVars, lookupVars, selVars>>

\* collection_loop of a streaming class: api.subscribe_to_candlestick(...).
\* The huobi call returns with the subscription open; the kucoin call runs
\* its event loop for asyncio.sleep(duration).
Subscribe ==
  /\ tpc = "subscribe"
  /\ subscribed' = TRUE
  /\ IF cls = "HBKlineDataCollectionThread"
       THEN tpc' = "exit" /\ wake' = wake
       ELSE tpc' = "blocked" /\ wake' = now + duration
  /\ UNCHANGED <<cls, now, start_time, duration, sleep, stop_event, stop_called,
                 pending, cb, nreq, ndeliv>>
  /\ UNCHANGED <<storeVars, orchVars, histVars, lookupVars, selVars>>

\* the kucoin subscribe_to_candlestick returns: asyncio.sleep(duration) is
\* over and the event loop, which ran the callbacks, has stopped
SubscribeReturn ==
  /\ tpc = "blocked"
  /\ now >= wake
  /\ \A c \in CallbackThreads : cb[c].pc = "idle"
  /\ subscribed' = FALSE
  /\ tpc' = "exit"
  /\ UNCHANGED <<cls, now, start_time, duration, sleep, wake, stop_event,
                 stop_called, pending, cb, nreq, ndeliv>>
  /\ UNCHANGED <<storeVars, orchVars, histVars, lookupVars, selVars>>

\* the end of run(): self.stop(), and the thread terminates
RunExit ==
  /\ tpc = "exit"
  /\ stop_event' = stop(stop_event)
  /\ tpc' = "done"
  /\ UNCHANGED <<cls, now, start_time, duration, sleep, wake, stop_called,
                 pending, subscribed, cb, nreq, ndeliv>>
  /\ UNCHANGED <<storeVars, orchVars, histVars, lookupVars, selVars>>

\* ThreadingBase.stop() called by another thread while the thread is running
Stop ==
  /\ ~stop_called
  /\ tpc \notin {"new", "done"}
  /\ stop_called' = TRUE
  /\ stop_event' = stop(stop_event)
  /\ UNCHANGED <<cls, now, start_time, duration, sleep, tpc, wake, pending,
                 subscribed, cb, nreq, ndeliv>>
  /\ UNCHANGED <<storeVars, orchVars, histVars, lookupVars, selVars>>

\* The SDK calls the callback of the thread with a record.  The response of
\* each request of a polling thread arrives on a connection of its own, so
\* callbacks of different requests can run at the same time; the records of
\* one subscription are handed over one after the other, those of kucoin on
\* the event loop of the blocked thread itself.  A callback runs on the first
\* SDK thread that is free.
Deliver(c) ==
  /\ cb[c].pc = "idle"
  /\ \A c2 \in CallbackThreads : c2 < c => cb[c2].pc # "idle"
  /\ ndeliv < MaxDeliveries
  /\ IF cls \in Polling
       THEN /\ pending > 0
            /\ pending' = pending - 1
       ELSE /\ subscribed
            /\ \A c2 \in CallbackThreads : cb[c2].pc = "idle"
            /\ cls = "KCKlineDataCollectionThread" => tpc = "blocked"
            /\ pending' = pending
  /\ \E n \in Ids :
       cb' = [cb EXCEPT ![c] = [pc |-> "check", data |-> CallbackRow(n), at |-> now]]
  /\ ndeliv' = ndeliv + 1
  /\ UNCHANGED <<cls, now, start_time, duration, sleep, tpc, wake, stop_event,
                 stop_called, subscribed, nreq>>
  /\ UNCHANGED <<storeVars, orchVars, histVars, lookupVars, selVars>>

\* write_data_to_csv, lines 83-87: _clean_data and the membership test
CbCheck(c) ==
  /\ cb[c].pc = "check"
  /\ LET data == clean_data(cb[c].data) IN
       cb' = [cb EXCEPT ![c] =
                IF InDict(timestamps, data[id_index + 1])
                  THEN [pc |-> "timeout", data |-> data, at |-> 0]
                  ELSE [pc |-> "register", data |-> data, at |-> cb[c].at]]
  /\ UNCHANGED <<cls, now, start_time, duration, sleep, tpc, wake, stop_event,
                 stop_called, pending, subscribed, nreq, ndeliv>>
  /\ UNCHANGED <<storeVars, orchVars, histVars, lookupVars, selVars>>

\* write_data_to_csv, line 89: self.timestamps[data[0]] = True
CbRegister(c) ==
  /\ cb[c].pc = "register"
  /\ timestamps' = DictSet(timestamps, cb[c].data[1])
  /\ cb' = [cb EXCEPT ![c].pc = "write"]
  /\ UNCHANGED <<files, present, constructed, csv_name, id_buffer_size, id_index,
                 op, arg, io_ok, ret, ncalls>>
  /\ UNCHANGED <<cls, now, start_time, duration, sleep, tpc, wake, stop_event,
                 stop_called, pending, subscribed, nreq, ndeliv>>
  /\ UNCHANGED <<orchVars, histVars, lookupVars, selVars>>

\* write_data_to_csv, lines 91-93: the row is appended to the csv file, or the
\* append fails and the callback prints the exception
CbWrite(c) ==
  /\ cb[c].pc = "write"
  /\ \E ok \in BOOLEAN :
       /\ io_ok' = ok
       /\ files' = IF ok
                     THEN [files EXCEPT ![csv_name] = Append(@, cb[c].data)]
                     ELSE files
  /\ cb' = [cb EXCEPT ![c].pc = "timeout", ![c].at = 0]
  /\ UNCHANGED <<present, constructed, csv_name, timestamps, id_buffer_size,
                 id_index, op, arg, ret, ncalls>>
  /\ UNCHANGED <<cls, now, start_time, duration, sleep, tpc, wake, stop_event,
                 stop_called, pending, subscribed, nreq, ndeliv>>
  /\ UNCHANGED <<orchVars, histVars, lookupVars, selVars>>

\* the end of the callback: if self._timeout_cb(): self.stop()
CbTimeout(c) ==
  /\ cb[c].pc = "timeout"
  /\ stop_event' = IF timeout_cb(now, start_time, duration)
                     THEN stop(stop_event) ELSE stop_event
  /\ cb' = [cb EXCEPT ![c] = IdleCallback]
  /\ UNCHANGED <<cls, now, start_time, duration, sleep, tpc, wake, stop_called,
                 pending, subscribed, nreq, ndeliv>>
  /\ UNCHANGED <<storeVars, orchVars, histVars, lookupVars, selVars>>

NextThread ==
  \/ Tick \/ ThreadRun \/ LoopCheck \/ Request \/ SleepEnd \/ Subscribe
  \/ SubscribeReturn \/ RunExit \/ Stop
  \/ \E c \in CallbackThreads :
       Deliver(c) \/ CbCheck(c) \/ CbRegister(c) \/ CbWrite(c) \/ CbTimeout(c)

SpecThread == InitThread /\ [][NextThread]_vars

----------------------------------------------------------------------------
(* A polling thread with the clock tied to its statements: the loop test    *)
(* and the end of run() take no time, time.sleep returns when its period is *)
(* over, and an adapter call returns within MaxCallTime                     *)

\* clock units one adapter call of a polling thread can take
MaxCallTime == 1

\* the time at which the thread came to the adapter call it is at: the start
\* of run() for its first call, the end of the last sleep for a later one
CallBegan == IF nreq = 0 THEN start_time ELSE wake

InitPoll == InitThread /\ cls \in Polling

\* time passes while the thread waits to be started, sleeps, is inside an
\* adapter call or has terminated
TickPolling ==
  /\ tpc \notin {"check", "exit"}
  /\ tpc = "sleep" => now < wake
  /\ (tpc = "request" /\ nreq < MaxRequests) => now < CallBegan + MaxCallTime
  /\ Tick

NextPoll ==
  \/ TickPolling \/ ThreadRun \/ LoopCheck \/ Request \/ SleepEnd \/ RunExit
  \/ Stop
  \/ \E c \in CallbackThreads :
       Deliver(c) \/ CbCheck(c) \/ CbRegister(c) \/ CbWrite(c) \/ CbTimeout(c)

SpecPoll == InitPoll /\ [][NextPoll]_vars

----------------------------------------------------------------------------
(* Claims about the DataStore, checked under SpecStore *)

\* the rows of the csv file of the store
Rows == files[csv_name]

\* the rows whose first field is id
RowsWithId(rows, id) == { i \in 1..Len(rows) : rows[i][1] = id }

\* C1: whatever the order and the repetition of the ids offered to one DataStore
\* with id_index = 0, its csv file never holds two rows with the same id.
C1_IdStoredAtMostOnce ==
  id_index = 0 =>
    \A i, j \in 1..Len(Rows) : i # j => Rows[i][1] # Rows[j][1]

\* C1 witness: ids arrived as x, y, x', where x' is another spelling of x, the
\* first two were stored and the third call left the file alone.
C1_Witness ==
  /\ id_index = 0 /\ op = "write" /\ ncalls = 3 /\ Len(Rows) = 2
  /\ Len(timestamps) = 2
  /\ arg[1] # Rows[1][1]
  /\ clean_data(arg)[1] = Rows[1][1]
  /\ Rows[2][1] # Rows[1][1]

\* C2 (as stated): every call of write_data_to_csv tells its caller whether the
\* record was stored or rejected as a duplicate.
C2_ReportsOutcome ==
  op = "write" => ret \in {"Stored", "DuplicateRejected"}

\* C2 (amended): write_data_to_csv reports nothing, it returns None on both
\* paths.  A call whose id is in the dict leaves the file alone; a call whose id
\* is not in the dict appends exactly its cleaned row when the file append
\* succeeds and raises otherwise; with id_index = 0 the file then holds at most
\* one row with the id of the call.
C2_SilentAppend ==
  [][ (op' = "write" /\ ncalls' = ncalls + 1) =>
        LET d == clean_data(arg')
            known == \E i \in 1..Len(timestamps) : timestamps[i] = d[id_index + 1]
        IN  /\ known => (files' = files /\ ret' = "None")
            /\ (~known /\ io_ok') =>
                 /\ files' = [files EXCEPT ![csv_name] = Append(files[csv_name], d)]
                 /\ ret' = "None"
            /\ (~known /\ ~io_ok') => (files' = files /\ ret' = "raised")
            /\ id_index = 0 =>
                 Cardinality(RowsWithId(files'[csv_name], d[1])) <= 1 ]_vars

\* C2 witness: two records with the same id and different payloads were offered;
\* the file holds the first one only and the second call returned None.
C2_Witness ==
  /\ id_index = 0 /\ op = "write" /\ ncalls = 2 /\ io_ok /\ ret = "None"
  /\ Len(Rows) = 1
  /\ Rows[1][1] = clean_data(arg)[1]
  /\ Rows[1] # clean_data(arg)

\* C3: the dict of seen ids never holds more than id_buffer_size ids (the oldest
\* id is evicted when a new id arrives at capacity).
C3_BufferBounded ==
  Len(timestamps) <= id_buffer_size

\* C4: constructing a DataStore leaves the rows of an existing csv file as they
\* are.
C4_ConstructKeepsRows ==
  [][ op' = "construct" => files' = files ]_vars

----------------------------------------------------------------------------
(* Claims about the thread launchers, checked under SpecOrch *)

Running == { t \in DOMAIN task : task[t] = "running" }
Terminated == { t \in DOMAIN task : task[t] \in {"exited", "failed"} }

\* the slice of the task list task t lies in, counted from 0
BatchOf(t) == (t - 1) \div SIMULTANEOUS_REQUESTS

\* C5: in all_threads and the huobi staggered launchers at most
\* SIMULTANEOUS_REQUESTS collection tasks are started and not yet terminated,
\* whatever the number of symbols.
C5_ConcurrencyCap ==
  entry \in {"all_threads"} \cup Staggered =>
    Cardinality(Running) <= SIMULTANEOUS_REQUESTS

\* C5 witness: all_threads has a full slice running while a task of the next
\* slice is waiting to be started.
C5_Witness ==
  /\ entry = "all_threads"
  /\ Cardinality(Running) = SIMULTANEOUS_REQUESTS
  /\ \E t \in DOMAIN task : task[t] = "new" /\ BatchOf(t) = 1

\* a step that starts a task starts it in the iteration of its own slice
C6_StartsInOwnSlice ==
  entry \in {"all_threads"} \cup Staggered =>
    \A t \in DOMAIN task :
      (task[t] # "running" /\ task'[t] = "running") =>
        /\ sleeps = BatchOf(t)
        /\ starts[t] = 0
        /\ \A u \in DOMAIN task :
             BatchOf(u) < BatchOf(t) => task[u] \in {"exited", "failed"}

\* C6: in all_threads and the huobi staggered launchers a task is started only
\* in the iteration of its own slice of the list (slice b after b sleeps),
\* when every task of the earlier slices has terminated; no task is started
\* twice, and when the launcher is done no task that was built is left
\* unstarted.
C6_BatchBarrier ==
  /\ [][C6_StartsInOwnSlice]_vars
  /\ [](entry \in {"all_threads"} \cup Staggered =>
          /\ \A t \in DOMAIN task : starts[t] <= 1
          /\ opc = "done" => \A t \in DOMAIN task : task[t] # "new")

\* C6 witness: a task of the second slice runs after one sleep, the first slice
\* having terminated, in a staggered launcher.
C6_Witness ==
  /\ entry = "huobi_staggered_get_klines"
  /\ Len(task) > SIMULTANEOUS_REQUESTS
  /\ sleeps = 1
  /\ task[SIMULTANEOUS_REQUESTS + 1] = "running"
  /\ \A u \in 1..SIMULTANEOUS_REQUESTS : task[u] \in {"exited", "failed"}

\* C7: every launcher ends by returning, having built one task per symbol,
\* started each exactly once and seen each terminate.
C7_BuildsStartsJoinsAll ==
  opc \in {"done", "raised"} =>
    /\ opc = "done"
    /\ \A t \in DOMAIN task : starts[t] = 1 /\ task[t] \in {"exited", "failed"}

\* a step in which a running task fails changes nothing but that task
C8_FailureTouchesNothingElse ==
  \A t \in DOMAIN task :
    (task[t] = "running" /\ task'[t] = "failed") =>
      /\ \A u \in DOMAIN task : u # t => task'[u] = task[u]
      /\ <<opc, lpc, bi, k, sleeps>>' = <<opc, lpc, bi, k, sleeps>>

\* C8: the failure of one collection loop changes no other task and not the
\* position of its launcher; a launcher one of whose tasks failed still ends by
\* returning, with every task started once and terminated.
C8_FailureIsolated ==
  /\ [][C8_FailureTouchesNothingElse]_vars
  /\ []((\E t \in DOMAIN task : task[t] = "failed") =>
          /\ opc # "raised"
          /\ opc = "done" =>
               \A t \in DOMAIN task :
                 starts[t] = 1 /\ task[t] \in {"exited", "failed"})

\* C8 witness: all_threads is done; the first task failed while a sibling of
\* its slice went on to exit, and a task of the next slice was run.
C8_Witness ==
  /\ entry = "all_threads" /\ opc = "done"
  /\ Len(task) > SIMULTANEOUS_REQUESTS
  /\ task[1] = "failed" /\ task[2] = "exited"
  /\ task[SIMULTANEOUS_REQUESTS + 1] = "exited"

----------------------------------------------------------------------------
(* Claims about HistoricalKlines, checked under SpecHist *)

\* the response is an error dict with the exchange's TOO_MANY_REQUESTS or
\* TIMEOUT code
TransientError(ex, r) ==
  /\ r.kind = "error"
  /\ \/ ex = "binance" /\ r.code \in {-1003, -1001}
     \/ ex \in {"kucoin", "huobi"} /\ r.code \in {429, 504}

\* the response is an error or a payload that cannot be stored
FatalError(ex, r) ==
  \/ r.kind = "error" /\ ~TransientError(ex, r)
  \/ r.kind = "none"
  \/ \E i \in 1..Len(r.candles) : r.candles[i].shape = "bad"

\* a fetch that yielded a rate-limit or timeout error is followed by the
\* backoff sleep and the same fetch again
C9_Step ==
  (hpc = "store" /\ TransientError(exchange, resp)) =>
    (hpc' = "fetch" /\ backoffs' = backoffs + 1)

\* C9: when a kline fetch yields an error with the exchange's
\* TOO_MANY_REQUESTS or TIMEOUT code, the task sleeps DELAY_AFTER_TIMEOUT and
\* fetches again.
C9_TransientRetried == [][C9_Step]_vars

\* a fetch that yielded a fatal error is followed by no sleep-and-retry: the
\* error is printed and get_historical_all moves on
C10_Step ==
  (hpc = "store" /\ FatalError(exchange, resp)) =>
    /\ hpc' = "sleep" /\ logged'
    /\ fetches' = fetches /\ backoffs' = backoffs

C11_RetryUntilDeadline ==
  (hpc = "sleep" /\ TransientError(exchange, resp))
    => /\ helapsed > DURATION
       /\ helapsed <= DURATION + DELAY_AFTER_TIMEOUT + MaxFetchTime

----------------------------------------------------------------------------
(* Claims about the lookups, checked under SpecLookup *)

HasToken(ex, t) == t \in get_intervals(ex)
HasSeconds(ex, n) ==
  \E i \in 1..Len(IntervalTable(ex)) : IntervalTable(ex)[i][2] = n

\* C12: per exchange the interval table is a bijection: the token found for
\* the seconds of a supported token is that token (by both seconds-to-token
\* lookups), and the seconds of the token found for a supported number of
\* seconds is that number.
C12_TableBijection ==
  /\ (lkop = "get_interval_seconds" /\ lkout.raised = "")
       => /\ get_kline_interval_from_seconds(lkex, IntF(lkout.seconds)) = lktoken
          /\ get_exchange_interval(lkex, lkout.seconds) = lktoken
  /\ (lkop \in {"get_kline_interval_from_seconds", "get_exchange_interval"}
        /\ lkout.raised = "")
       => get_interval_seconds(lkex, lkout.token)
            = [raised |-> "", seconds |-> lkseconds]
  /\ (lkop = "get_interval_seconds" /\ HasToken(lkex, lktoken))
       => lkout.raised = ""
  /\ (lkop \in {"get_kline_interval_from_seconds", "get_exchange_interval"}
        /\ HasSeconds(lkex, lkseconds))
       => lkout.raised = ""

\* the seconds of huobi's 60min were looked up, and 3600 leads back to 60min
C12_Witness ==
  /\ lkop = "get_interval_seconds" /\ lkex = "huobi"
  /\ lktoken = "60min" /\ lkout.seconds = 3600
  /\ get_kline_interval_from_seconds("huobi", IntF(3600)) = "60min"

\* C13 as stated: both directions fail with the same error, "Interval not
\* supported", when the exchange has no mapping.
C13_SameError ==
  /\ (lkop = "get_interval_seconds" /\ ~HasToken(lkex, lktoken))
       => lkout.raised = NotSupported
  /\ (lkop \in {"get_kline_interval_from_seconds", "get_exchange_interval"}
        /\ ~HasSeconds(lkex, lkseconds))
       => lkout.raised = NotSupported

\* C13, amended: both directions fail when the exchange has no mapping, each
\* with its own error: get_interval_seconds raises KeyError for a token outside
\* the table, the seconds-to-token lookups raise "Interval not supported" for a
\* number of seconds outside it; neither returns an interval.
C13_BothRaise ==
  /\ (lkop = "get_interval_seconds" /\ ~HasToken(lkex, lktoken))
       => lkout.raised = KeyError /\ lkout.seconds = 0
  /\ (lkop \in {"get_kline_interval_from_seconds", "get_exchange_interval"}
        /\ ~HasSeconds(lkex, lkseconds))
       => lkout.raised = NotSupported /\ lkout.token = ""

\* 7200 seconds were looked up on huobi, which has no two-hour interval
C13_Witness ==
  /\ lkop = "get_kline_interval_from_seconds" /\ lkex = "huobi"
  /\ lkseconds = 7200 /\ lkout.raised = NotSupported

\* the codes the claim names for an exchange
RateLimitedCode(ex) == IF ex = "binance" THEN -1003 ELSE 429
TimeoutCode(ex) == IF ex = "binance" THEN -1001 ELSE 504

\* C14: error classification is total and static per exchange: _error_handler
\* takes one of its branches on every error (it does not raise); it takes the
\* TOO_MANY_REQUESTS branch (RateLimited) exactly on an error whose code is
\* the exchange's rate-limit code, the TIMEOUT branch (Timeout) exactly on one
\* whose code is its timeout code, and an else branch (Fatal) on every other
\* error.
C14_TotalStatic ==
  lkop = "error_handler"
    => /\ lkout.raised = ""
       /\ lkout.branch = "TOO_MANY_REQUESTS"
            <=> (lkerror.isdict /\ lkerror.hascode
                   /\ lkerror.code = RateLimitedCode(lkex))
       /\ lkout.branch = "TIMEOUT"
            <=> (lkerror.isdict /\ lkerror.hascode
                   /\ lkerror.code = TimeoutCode(lkex))
       /\ lkout.branch \in {"TOO_MANY_REQUESTS", "TIMEOUT", "other code", "not dict"}

----------------------------------------------------------------------------
(* Claims about the symbol selection, checked under SpecSelect *)

\* the symbols of the listing that are tradable and not excluded
Eligible ==
  { listing[i].symbol : i \in { j \in 1..Len(listing) :
      listing[j].trading /\ listing[j].symbol \notin excluded } }

Elems(seq) == { seq[i] : i \in 1..Len(seq) }

\* C15: the tracking set a *_set_coins_to_track function returns is exactly
\* the set of symbols of the raw listing that are tradable and not excluded.
C15_TradableNotExcluded ==
  slpc = "done" => Elems(tracked) = Eligible

\* the place of a symbol identifier in the sort order of its exchange
Rank(ex, sym) == CHOOSE i \in 1..Len(Symbols(ex)) : Symbols(ex)[i] = sym

\* C16 as stated: the symbols are returned in the sort order of their
\* identifiers.
C16_SortedOrder ==
  slpc = "done"
    => \A i, j \in 1..Len(tracked) :
         i < j => Rank(slex, tracked[i]) < Rank(slex, tracked[j])

\* the place of a symbol in the raw listing
ListingIndex(sym) == CHOOSE i \in 1..Len(listing) : listing[i].symbol = sym

\* C16, amended: the result is a fixed function of the exchange and the raw
\* listing, order included: on binance the tradable symbols, each once, in
\* the order of the listing; on kucoin and on huobi the same two symbols in
\* the same order whatever the listing.
C16_ListingOrder ==
  slpc = "done"
    => CASE slex = "binance" ->
              /\ Elems(tracked)
                   = { listing[i].symbol :
                         i \in { j \in 1..Len(listing) : listing[j].trading } }
              /\ \A i, j \in 1..Len(tracked) :
                   i < j => ListingIndex(tracked[i]) < ListingIndex(tracked[j])
         [] slex = "kucoin" -> tracked = <<"BTC-USDT", "ETH-USDT">>
         [] slex = "huobi" -> tracked = <<"btcusdt", "ethusdt">>

\* binance listed ETHUSDT before BTCUSDT, both tradable, and the selection
\* returned them
C16_Witness ==
  /\ slpc = "done" /\ slex = "binance"
  /\ Len(listing) = 2
  /\ listing[1] = [symbol |-> "ETHUSDT", trading |-> TRUE]
  /\ listing[2] = [symbol |-> "BTCUSDT", trading |-> TRUE]
  /\ Len(tracked) = 2

----------------------------------------------------------------------------
(* Claims about a collection thread, checked under SpecThread *)

\* the deadline test of a polling thread that follows a stop() finds the flag
\* and leaves the collection loop
C17_Step ==
  (cls \in Polling /\ stop_called /\ tpc = "check" /\ tpc' # "check")
    => tpc' = "exit"

\* C17: the stop signal is cooperative and effective: after stop() is called
\* on a running task, the task observes the flag at its next deadline check
\* and leaves its loop there, so that no further fetch is issued.
C17_StopObserved == [][C17_Step]_vars

\* a streaming thread terminates only with its subscription closed, and, unless
\* it was stopped, only once its duration has passed since run() began; a row
\* is appended only for a record that was handed over before the timeout
C18_Step ==
  cls \in Streaming
    => /\ tpc' = "done"
            => /\ ~subscribed'
               /\ ~stop_called' => now' - start_time' >= duration'
       /\ \A c \in CallbackThreads :
            (cb[c].pc = "write" /\ files' # files)
              => ~timeout_cb(cb[c].at, start_time, duration)

\* C18: a streaming task stays running while it monitors its deadline and
\* stops the subscription once the deadline is exceeded: its thread does not
\* reach the terminal state before the deadline, nor while the subscription
\* is still delivering records, and no record the subscription pushes after
\* the timeout is persisted.
C18_RunsUntilDeadline == [][C18_Step]_vars

\* the callbacks that are between the membership test and the end of the row
\* write of write_data_to_csv
Appending == { c \in CallbackThreads : cb[c].pc \in {"register", "write"} }

\* C20: appends to one DataStore are sequential: at most one callback at a
\* time is between the membership test and the row write of
\* write_data_to_csv, and an id that callbacks deliver more than once still
\* has at most one row in the log.
C20_AppendsSequential ==
  /\ Cardinality(Appending) <= 1
  /\ \A n \in Ids : Cardinality(RowsWithId(files[csv_name], IntF(n))) <= 1

----------------------------------------------------------------------------
(* Claim about the stores of the tasks, checked under SpecOrch *)

\* the tasks that have been constructed
Built == { t \in DOMAIN task : task[t] # "none" }

\* C19: no two tasks share a DataStore or a log path: every task a launcher
\* has built (for distinct pairs of exchange and symbol) owns a DataStore
\* object and a csv path that no other task of the launcher has.
C19_OwnStoreAndPath ==
  /\ \A t \in Built : data_store[t].obj # 0
  /\ \A t, u \in Built :
       t # u => /\ data_store[t].obj # data_store[u].obj
                /\ data_store[t].csv_name # data_store[u].csv_name

\* all_threads runs the first huobi task and the first kucoin task, which
\* have the same place in their symbol lists, at the same time
C19_Witness ==
  /\ entry = "all_threads" /\ Len(task) >= 3
  /\ task[1] = "running" /\ task[3] = "running"
  /\ data_store[1].csv_name # data_store[3].csv_name

----------------------------------------------------------------------------
(* Claims about the rows a candle stream leaves in the log, checked under   *)
(* SpecThread                                                               *)

\* the classes whose callbacks store candles
KlineClasses == Classes \ {"HBTradingDataCollectionThread"}

\* C21: within one candle stream the openTime values of the rows of the log
\* are non-decreasing in row order: a candle whose openTime is smaller than
\* that of the last stored row is rejected, as is a duplicate.
C21_OpenTimeNonDecreasing ==
  cls \in KlineClasses
    => \A i, j \in 1..Len(files[csv_name]) :
         i < j => files[csv_name][i][1].n <= files[csv_name][j][1].n

----------------------------------------------------------------------------
(* Claims about the launchers and the configured interval, checked under    *)
(* SpecOrch                                                                 *)

\* the exchange has a token for the configured number of seconds
Supports(ex) == HasSeconds(ex, kline_interval_seconds)

\* C22: an unsupported interval is fatal to the affected tasks only: when the
\* configured seconds have no token on one exchange, all_threads still builds
\* and runs the tasks of the exchanges that have one, and completes its
\* batches.
C22_UnsupportedIsolated ==
  (entry = "all_threads" /\ opc \in {"done", "raised"})
    => /\ opc = "done"
       /\ \A t \in DOMAIN task :
            Supports(TaskExchange(entry, t))
              => starts[t] = 1 /\ task[t] \in {"exited", "failed"}


\* C23: binance_get_klines and kucoin_get_klines run their tasks in a bounded
\* pool, as all_threads does: the number of tasks running at the same time
\* never exceeds SIMULTANEOUS_REQUESTS, whatever the number of symbols.
C23_DirectLaunchersCapped ==
  entry \in {"binance_get_klines", "kucoin_get_klines"}
    => Cardinality(Running) <= SIMULTANEOUS_REQUESTS

----------------------------------------------------------------------------
(* Claims about the deadline of a collection thread, checked under          *)
(* SpecThread                                                               *)

\* a polling thread goes on to an adapter call only at a moment when the time
\* since run() began does not exceed the duration
C24_Step ==
  (cls \in Polling /\ tpc # "request" /\ tpc' = "request")
    => ~timeout_cb(now, start_time', duration)

\* C24: a polling task re-checks its deadline before each iteration: no fetch
\* is issued at a moment when the elapsed time since task start is greater
\* than the duration, in particular none after the inter-fetch sleep has
\* carried the task past its deadline.
C24_CheckBeforeFetch == [][C24_Step]_vars


\* the deadline runs from the step in which run() begins and is not moved
\* afterwards; a thread that has just begun to run is not timed out; a polling
\* thread leaves its loop, and a callback sets the stop flag, only when more
\* than duration has passed since then
C25_Step ==
  /\ (tpc = "new" /\ tpc' # "new")
       => /\ start_time' = now'
          /\ ~timeout_cb(now', start_time', duration')
  /\ tpc # "new" => start_time' = start_time
  /\ (cls \in Polling /\ tpc # "exit" /\ tpc' = "exit")
       => now - start_time > duration
  /\ (~stop_event /\ stop_event' /\ ~stop_called' /\ tpc' # "done")
       => now - start_time > duration

\* C25: the deadline of a task is measured from the moment its run() begins,
\* not from its construction: however long the task waited to be started,
\* _timeout_cb does not report a timeout until more than duration has elapsed
\* since run() began, and a running polling task does not terminate before
\* that.
C25_DeadlineFromRunStart == [][C25_Step]_vars

\* a binance thread of duration 1 was started two clock units after its
\* construction and ran until the clock read 4
C25_Witness ==
  /\ cls = "BNCandlestickDataCollectionThread" /\ tpc = "done"
  /\ duration = 1 /\ start_time = 2 /\ now = 4 /\ nreq >= 1


\* no step clears the stop flag, leaves the state after run(), enters the
\* collection loop with the flag set or after run(), or takes the thread back
\* to the state before its start
C26_Step ==
  /\ stop_event => stop_event'
  /\ tpc \in {"exit", "done"} => tpc' \in {"exit", "done"}
  /\ tpc = "done" => tpc' = "done"
  /\ tpc # "new" => tpc' # "new"
  /\ (stop_event \/ tpc \in {"exit", "done"})
       => ~(tpc' \in {"request", "check", "subscribe"} /\ tpc = "new")

----------------------------------------------------------------------------
(* Claims about the rows of the store, checked under SpecStore *)

\* a text without its leading spaces, without its trailing spaces
RECURSIVE LStrip(_)
LStrip(s) == IF s # <<>> /\ Head(s) = " " THEN LStrip(Tail(s)) ELSE s
RECURSIVE RStrip(_)
RStrip(s) ==
  IF s # <<>> /\ s[Len(s)] = " " THEN RStrip(SubSeq(s, 1, Len(s) - 1)) ELSE s

\* the sanitation the claim describes: newlines and commas are taken out of a
\* text field, as are the spaces at its two ends; every other character and
\* every non-text field is kept
Sanitized(data) ==
  [ i \in 1..Len(data) |->
      IF data[i].t = "str"
        THEN StrF(RStrip(LStrip(Replace(Replace(data[i].s, "\n"), ","))))
        ELSE data[i] ]

\* C27: every row written by write_data_to_csv is the sanitized input row:
\* a text field has lost its newlines, its commas and its leading and
\* trailing whitespace and kept every other character; non-text fields and
\* the number and order of the fields are unchanged.
C27_RowIsSanitizedInput ==
  [][ (op' = "write" /\ ncalls' = ncalls + 1
         /\ Len(files'[csv_name]) = Len(files[csv_name]) + 1)
        => files'[csv_name][Len(files'[csv_name])] = Sanitized(arg') ]_vars

----------------------------------------------------------------------------
(* Claim about the steps of an append, checked under SpecThread *)

\* the step that puts a new id into the dict of seen ids leaves a state in
\* which the id has a row or the write of its row has been attempted
C28_Step ==
  \A n \in Ids :
    (~InDict(timestamps, IntF(n)) /\ InDict(timestamps', IntF(n)))
      => \/ RowsWithId(files'[csv_name], IntF(n)) # {}
         \/ \E c \in CallbackThreads :
              /\ cb[c].pc = "write" /\ cb'[c].pc = "timeout"
              /\ cb[c].data[1] = IntF(n)

\* C28: in every state of a DataStore, the states between the steps of an
\* append included, every id in the dict of seen ids has a row in the log or
\* belongs to an append whose write has been attempted.
C28_RegisteredMeansAttempted == [][C28_Step]_vars

----------------------------------------------------------------------------
(* Claims about the history fetch, checked under SpecHist *)

\* C29: in get_historical_all an error of one symbol does not affect the
\* others: whatever get_kline_history does for a symbol, no error leaves
\* save_klines, and save_klines is called for every symbol of the list.
C29_ErrorsContained ==
  /\ hpc # "raised"
  /\ hpc = "done" => hsym = Len(HistSymbols)


\* the response is a list of well-formed candles, or a dict that holds one
\* under "data", and no two of its candles have the same openTime
WellFormed(r) ==
  /\ r.kind \in {"list", "dict"}
  /\ \A i \in 1..Len(r.candles) : r.candles[i].shape \in {"list", "dict"}
  /\ \A i, j \in 1..Len(r.candles) :
       i # j => r.candles[i].v[1] # r.candles[j].v[1]

\* _store_klines on a well-formed response, none of whose writes fails, adds
\* one row per candle to the end of the file, in the order of the response;
\* the row of a candle starts with its openTime and holds its seven values
C30_Step ==
  (hpc = "store" /\ hpc' # "store" /\ WellFormed(resp) /\ ~logged')
    => LET old == files[csv_name]
           new == files'[csv_name]
       IN  /\ Len(new) = Len(old) + Len(resp.candles)
           /\ SubSeq(new, 1, Len(old)) = old
           /\ \A i \in 1..Len(resp.candles) :
                /\ Len(new[Len(old) + i]) = 7
                /\ new[Len(old) + i][1] = resp.candles[i].v[1]
                /\ Elems(new[Len(old) + i]) = Elems(resp.candles[i].v)

\* C30: a fetch response is persisted in full: for a response of n well-formed
\* candles (lists or dicts) with pairwise distinct openTime, _store_klines
\* appends exactly n rows to the store, in the order of the response, each
\* with openTime as its first field; no candle is skipped.
C30_ResponseStoredInFull == [][C30_Step]_vars

\* a response of two list candles, the newer one first, was stored: two rows
\* in that order
C30_Witness ==
  /\ hpc = "sleep" /\ ~logged /\ resp.kind = "list"
  /\ resp.candles = <<ListCandle("2"), ListCandle("1")>>
  /\ Len(files[csv_name]) = 2
  /\ files[csv_name][1][1] = StrF(<<"2">>)
  /\ files[csv_name][2][1] = StrF(<<"1">>)

----------------------------------------------------------------------------
(* Claims about failed appends and the id column, checked under SpecStore *)

\* C31: an append whose row write fails can be repeated: when
\* write_data_to_csv raises while appending the row, the store is left as
\* before the call, the id is not remembered, so that the same record is
\* accepted when it is submitted again.
C31_FailedAppendForgotten ==
  [][ (op' = "write" /\ ncalls' = ncalls + 1 /\ ret' = "raised")
        => /\ timestamps' = timestamps
           /\ files' = files
           /\ ~InDict(timestamps', clean_data(arg')[id_index + 1]) ]_vars


\* C32: duplicate suppression is keyed on the field id_index selects, for
\* every value of id_index: whatever records are offered with one id_index,
\* no two rows of the log agree at position id_index.
C32_KeyedOnIdIndex ==
  \A i, j \in 1..Len(Rows) :
    i # j => Rows[i][id_index + 1] # Rows[j][id_index + 1]

----------------------------------------------------------------------------
(* Claim about the two seconds-to-token lookups, checked under SpecLookup *)

\* C34: the two seconds-to-token lookups agree: for every exchange and every
\* number of seconds, what _get_exchange_interval yields is what
\* _get_kline_interval_from_seconds yields, the same token or the same
\* failure, and a token either returns is one of get_intervals() of the
\* exchange.
C34_LookupsAgree ==
  /\ lkop = "get_exchange_interval"
       => lkout = TokenOut(get_kline_interval_from_seconds(lkex, IntF(lkseconds)))
  /\ lkop = "get_kline_interval_from_seconds"
       => lkout = TokenOut(get_exchange_interval(lkex, lkseconds))
  /\ (lkop \in {"get_exchange_interval", "get_kline_interval_from_seconds"}
        /\ lkout.raised = "")
       => lkout.token \in get_intervals(lkex)

\* _get_exchange_interval was asked for 180 seconds on huobi, which has no
\* three-minute token, and failed as the other lookup does
C34_Witness ==
  /\ lkop = "get_exchange_interval" /\ lkex = "huobi" /\ lkseconds = 180
  /\ lkout.raised = NotSupported
  /\ get_kline_interval_from_seconds("huobi", IntF(180)) = NotSupported

----------------------------------------------------------------------------
(* Claim about the termination of a polling thread, checked under SpecPoll *)

\* C33: a polling task terminates soon after its deadline: provided every
\* adapter call returns, the thread has left its collection loop and set its
\* stop flag no later than one sleep period plus one adapter call after the
\* time since the start of run() exceeded the duration.  (A thread that has
\* used up the adapter calls of the model is at a call that does not return.)
C33_TerminatesSoonAfterDeadline ==
  (/\ tpc # "new"
   /\ ~(tpc = "request" /\ nreq = MaxRequests)
   /\ now - start_time > duration + sleep + MaxCallTime)
    => tpc = "done" /\ stop_event

\* a huobi trades thread of duration 1 and sleep 1, both of whose adapter
\* calls took as long as a call can take, terminated exactly one sleep period
\* and one call after its deadline
C33_Witness ==
  /\ cls = "HBTradingDataCollectionThread" /\ tpc = "done" /\ stop_event
  /\ ~stop_called /\ duration = 1 /\ sleep = 1 /\ nreq = 2
  /\ now - start_time = duration + sleep + MaxCallTime

====
